---- MODULE Spec2Model ----
(***************************************************************************)
(* Model of apps/ui/src/hooks/use-media-query.ts: the React hooks          *)
(* useMediaQuery, useIsMobile and useIsTablet, together with the parts of  *)
(* the host they run on: the window's media query lists and their change   *)
(* listeners, and React's render / passive-effect / cleanup life cycle.    *)
(*                                                                         *)
(* Each observer is one component instance that calls one of the hooks.    *)
(* Observers live under separate roots, so an error thrown by one of them  *)
(* unmounts that observer only.                                            *)
(***************************************************************************)
EXTENDS Integers, FiniteSets, Sequences, Bags, TLC

\* ---- bounds ----
NumObservers == 1
MaxUpdates == 2
MaxCycles == 2
MaxLog == 3

Min(a, b) == IF a < b THEN a ELSE b
Max(a, b) == IF a > b THEN a ELSE b

\* simulated viewport widths (device-independent pixels)
Widths == {320, 375, 428, 768, 769, 1024, 1200}

\* ---- query descriptors ----
MobileQuery == "(max-width: 768px)"
TabletQuery == "(max-width: 1024px)"
MalformedQuery == "(max-width: 768px"
Queries == {MobileQuery, TabletQuery, MalformedQuery}

Hooks == {"useMediaQuery", "useIsMobile", "useIsTablet"}
NoHook == "none"
NoQuery == "none"

VARIABLES
  hasWindow,      \* typeof window !== 'undefined'
  strict,         \* the platform's query parser raises on a malformed query
  width,          \* current viewport width
  listeners,      \* bag of registered 'change' listeners, one record per
                  \* addEventListener: [obs, q, m] = owning observer, the media
                  \* query list's query, and its last evaluated matches state
  phase,          \* observer -> "unmounted" | "mounted" | "renderError" | "effectError"
  hook,           \* observer -> the hook the component calls
  query,          \* observer -> query argument of the latest render
  matches,        \* observer -> React state cell [matches, setMatches]
  returned,       \* observer -> {} before any render returned, else {value returned by the latest render}
  effectPending,  \* observer -> the useEffect of the latest commit has not run yet
  cleanup,        \* observer -> query of the media query list the stored cleanup closure unsubscribes from, or NoQuery
  sinceChange,    \* observer -> handleChange invocations since the last viewport change
  crossed,        \* observer -> the last viewport change flipped the match of the observer's subscribed list
  effectRuns,     \* observer -> runs of the effect since the mount: "never", "once" or "again" (more than once)
  cycles,         \* completed mount-then-dispose cycles (counted up to MaxCycles, when counting)
  peak,           \* observer -> largest number of its listeners at any point of its latest effect flush
  counting,       \* the viewport context is a test double that counts mount-then-dispose cycles
  recording,      \* the viewport context is a test double that records what it delivers
  events,         \* observer -> payloads of the change events delivered to its listener since the mount (recorded)
  writes,         \* observer -> values handleChange passed to setMatches since the mount (recorded)
  sameSide        \* observer -> the last viewport change left the match of its subscribed list as it was (recorded)

\* what the test double is set up to do and what it has recorded
probes == <<counting, recording, events, writes, sameSide>>

vars == <<hasWindow, strict, width, listeners, phase, hook, query, matches,
          returned, effectPending, cleanup, sinceChange, crossed, effectRuns,
          cycles, peak, probes>>

\* the component instances of the run
Observers == DOMAIN phase

\* two instances on the same viewport
Pair == {1, 2}

\* ---- the platform: window.matchMedia ----

\* the platform's query parser, on the descriptors in use
ParseQuery(q) ==
  CASE q = "(max-width: 768px)"  -> [valid |-> TRUE, feature |-> "max-width", px |-> 768]
    [] q = "(max-width: 1024px)" -> [valid |-> TRUE, feature |-> "max-width", px |-> 1024]
    [] q = "(max-width: 640px)"  -> [valid |-> TRUE, feature |-> "max-width", px |-> 640]
    [] OTHER                     -> [valid |-> FALSE, feature |-> "none", px |-> 0]

\* evaluation of a query against a viewport width; an unparsable query is
\* 'not all' and matches nothing
Evaluate(q, w) ==
  LET p == ParseQuery(q) IN
    IF ~p.valid THEN FALSE
    ELSE p.feature = "max-width" /\ w <= p.px

\* window.matchMedia(q): either raises or yields a list whose .matches is the
\* current evaluation
matchMedia(q) ==
  IF ~ParseQuery(q).valid /\ strict
    THEN [raised |-> TRUE, matches |-> FALSE]
    ELSE [raised |-> FALSE, matches |-> Evaluate(q, width)]

\* mediaQuery.addEventListener('change', handleChange) on a fresh list
addEventListener(ls, o, q, m) == ls (+) SetToBag({[obs |-> o, q |-> q, m |-> m]})

\* one list shared by all observers of a query, cleared on removal
removeEventListener_AllOfQuery(ls, o, q) ==
  LET rest == {r \in BagToSet(ls) : r.q # q} IN
    [r \in rest |-> CopiesIn(r, ls)]

\* removal asked of a media query list other than the one subscribed to
removeEventListener_OtherList(ls, o, q) == ls

\* mediaQuery.removeEventListener('change', handleChange): removes the one
\* registration the closure made
removeEventListener(ls, o, q) ==
  LET mine == {r \in BagToSet(ls) : r.obs = o /\ r.q = q} IN
    IF mine = {} THEN ls
    ELSE ls (-) SetToBag({CHOOSE r \in mine : TRUE})

\* a listener attached to every resize instead of the list's 'change' event
Due_EveryResize(r) == TRUE

\* a change event is due for registration r
Due(r) == Evaluate(r.q, width) # r.m

\* ---- the hooks ----

\* useIsMobile(): the query it passes to useMediaQuery
useIsMobile_TabletBreakpoint == "(max-width: 1024px)"
useIsMobile == "(max-width: 768px)"

\* useIsTablet(): the query it passes to useMediaQuery
useIsTablet_MobileBreakpoint == "(max-width: 768px)"
useIsTablet_NarrowBreakpoint == "(max-width: 640px)"
useIsTablet == "(max-width: 1024px)"

\* the query argument useMediaQuery receives when the component calls hook h
\* (with argument q, for useMediaQuery itself)
HookQuery(h, q) ==
  IF h = "useIsMobile" THEN useIsMobile
  ELSE IF h = "useIsTablet" THEN useIsTablet
  ELSE q

\* variants of the initialiser: the constant false of the planned useMobile
\* hook, one without the window guard, one that swallows the platform's error
InitialMatches_AlwaysFalse(q) == [raised |-> FALSE, value |-> FALSE]
InitialMatches_NoGuard(q) == [raised |-> matchMedia(q).raised, value |-> matchMedia(q).matches]
InitialMatches_Catch(q) ==
  IF ~hasWindow THEN [raised |-> FALSE, value |-> FALSE]
  ELSE [raised |-> FALSE, value |-> matchMedia(q).matches]

\* useState initialiser
InitialMatches(q) ==
  IF ~hasWindow THEN [raised |-> FALSE, value |-> FALSE]
  ELSE LET mq == matchMedia(q) IN [raised |-> mq.raised, value |-> mq.matches]

\* an effect that subscribes without re-reading the match
SetInitialValue_Skipped(ms, o, v) == ms

\* "Set initial value": setMatches(mediaQuery.matches) in the effect body
SetInitialValue(ms, o, v) == [ms EXCEPT ![o] = v]

\* number of listeners registered in ls on behalf of observer o
CountOf(ls, o) ==
  LET mine == {r \in BagToSet(ls) : r.obs = o} IN
    BagCardinality([r \in mine |-> CopiesIn(r, ls)])

\* an effect that returns no cleanup
RunCleanup_Leaky(ls, o) == ls

\* the cleanup closure returned by the effect
RunCleanup(ls, o) ==
  IF cleanup[o] = NoQuery THEN ls ELSE removeEventListener(ls, o, cleanup[o])

\* a subscription made before the previous one is removed
EffectSteps_AddFirst(ls, o, q, m) ==
  <<addEventListener(ls, o, q, m), RunCleanup(addEventListener(ls, o, q, m), o)>>

\* the listener bags an effect flush goes through: after React has run the
\* cleanup of the previous effect, and after the effect body has subscribed
EffectSteps(ls, o, q, m) ==
  <<RunCleanup(ls, o), addEventListener(RunCleanup(ls, o), o, q, m)>>

\* state before any mount, for the set S of component instances, with a
\* viewport context that records deliveries (rec) or counts cycles (cnt)
InitWith(S, rec, cnt) ==
  /\ recording = rec
  /\ counting = cnt
  /\ events = [o \in S |-> << >>]
  /\ writes = [o \in S |-> << >>]
  /\ sameSide = [o \in S |-> FALSE]
  /\ peak = [o \in S |-> 0]
  /\ hasWindow \in BOOLEAN
  /\ strict \in BOOLEAN
  /\ width \in Widths
  /\ listeners = EmptyBag
  /\ phase = [o \in S |-> "unmounted"]
  /\ hook = [o \in S |-> NoHook]
  /\ query = [o \in S |-> NoQuery]
  /\ matches = [o \in S |-> FALSE]
  /\ returned = [o \in S |-> {}]
  /\ effectPending = [o \in S |-> FALSE]
  /\ cleanup = [o \in S |-> NoQuery]
  /\ sinceChange = [o \in S |-> 0]
  /\ crossed = [o \in S |-> FALSE]
  /\ effectRuns = [o \in S |-> "never"]
  /\ cycles = 0

\* state before any mount, for the set S of component instances
InitFor(S) == InitWith(S, FALSE, FALSE)

\* one instance on a recording viewport context
Solo == {1}
InitRecorded == InitWith(Solo, TRUE, FALSE)

\* NumObservers instances on a viewport context that counts cycles
InitCounted == InitWith(1..NumObservers, FALSE, TRUE)

\* before any mount, with NumObservers component instances
Init == InitFor(1..NumObservers)

\* before any mount, with a pair of component instances
InitPair == InitFor(Pair)

\* first render of a new component instance calling hook h with argument q
\* (useIsMobile and useIsTablet take no argument)
Mount(o, h, q) ==
  /\ phase[o] # "mounted"
  /\ (h = "useMediaQuery") = (q # NoQuery)
  /\ LET init == InitialMatches(HookQuery(h, q)) IN
       /\ phase' = [phase EXCEPT ![o] = IF init.raised THEN "renderError" ELSE "mounted"]
       /\ matches' = [matches EXCEPT ![o] = init.value]
       /\ returned' = [returned EXCEPT ![o] = IF init.raised THEN {} ELSE {init.value}]
       /\ effectPending' = [effectPending EXCEPT ![o] = ~init.raised]
  /\ hook' = [hook EXCEPT ![o] = h]
  /\ query' = [query EXCEPT ![o] = HookQuery(h, q)]
  /\ sinceChange' = [sinceChange EXCEPT ![o] = 0]
  /\ crossed' = [crossed EXCEPT ![o] = FALSE]
  /\ effectRuns' = [effectRuns EXCEPT ![o] = "never"]
  /\ peak' = [peak EXCEPT ![o] = 0]
  /\ events' = [events EXCEPT ![o] = << >>]
  /\ writes' = [writes EXCEPT ![o] = << >>]
  /\ sameSide' = [sameSide EXCEPT ![o] = FALSE]
  /\ UNCHANGED <<hasWindow, strict, width, listeners, cleanup, cycles,
                 counting, recording>>

\* React flushes the passive effect: cleanup of the previous effect, then the
\* effect body
RunEffect(o) ==
  /\ phase[o] = "mounted"
  /\ effectPending[o]
  /\ effectPending' = [effectPending EXCEPT ![o] = FALSE]
  /\ LET cleaned == RunCleanup(listeners, o) IN
       IF ~hasWindow
         THEN /\ listeners' = cleaned
              /\ peak' = [peak EXCEPT ![o] = CountOf(cleaned, o)]
              /\ cleanup' = [cleanup EXCEPT ![o] = NoQuery]
              /\ UNCHANGED <<phase, matches>>
         ELSE LET mediaQuery == matchMedia(query[o]) IN
           IF mediaQuery.raised
             THEN /\ phase' = [phase EXCEPT ![o] = "effectError"]
                  /\ listeners' = cleaned
                  /\ peak' = [peak EXCEPT ![o] = CountOf(cleaned, o)]
                  /\ cleanup' = [cleanup EXCEPT ![o] = NoQuery]
                  /\ UNCHANGED matches
             ELSE LET steps == EffectSteps(listeners, o, query[o], mediaQuery.matches) IN
                  /\ matches' = SetInitialValue(matches, o, mediaQuery.matches)
                  /\ listeners' = steps[2]
                  /\ peak' = [peak EXCEPT ![o] = Max(CountOf(steps[1], o), CountOf(steps[2], o))]
                  /\ cleanup' = [cleanup EXCEPT ![o] = query[o]]
                  /\ UNCHANGED phase
  /\ sinceChange' = [sinceChange EXCEPT ![o] = 0]
  /\ crossed' = [crossed EXCEPT ![o] = FALSE]
  /\ effectRuns' = [effectRuns EXCEPT ![o] = IF @ = "never" THEN "once" ELSE "again"]
  /\ sameSide' = [sameSide EXCEPT ![o] = FALSE]
  /\ UNCHANGED <<hasWindow, strict, width, hook, query, returned, cycles,
                 counting, recording, events, writes>>

\* re-render scheduled by setMatches: the hook returns the current state
Rerender(o) ==
  /\ phase[o] = "mounted"
  /\ returned[o] # {matches[o]}
  /\ returned' = [returned EXCEPT ![o] = {matches[o]}]
  /\ UNCHANGED <<hasWindow, strict, width, listeners, phase, hook, query,
                 matches, effectPending, cleanup, sinceChange, crossed,
                 effectRuns, cycles, peak, probes>>

\* the parent re-renders useMediaQuery with another query argument
SetQuery(o, q) ==
  /\ phase[o] = "mounted"
  /\ hook[o] = "useMediaQuery"
  /\ ~effectPending[o]
  /\ q # query[o]
  /\ query' = [query EXCEPT ![o] = q]
  /\ returned' = [returned EXCEPT ![o] = {matches[o]}]
  /\ effectPending' = [effectPending EXCEPT ![o] = TRUE]
  /\ UNCHANGED <<hasWindow, strict, width, listeners, phase, hook, matches,
                 cleanup, sinceChange, crossed, effectRuns, cycles, peak,
                 probes>>

\* the component unmounts: React runs the stored cleanup
Unmount(o) ==
  /\ phase[o] = "mounted"
  /\ ~effectPending[o]
  /\ phase' = [phase EXCEPT ![o] = "unmounted"]
  /\ listeners' = RunCleanup(listeners, o)
  /\ cleanup' = [cleanup EXCEPT ![o] = NoQuery]
  /\ hook' = [hook EXCEPT ![o] = NoHook]
  /\ query' = [query EXCEPT ![o] = NoQuery]
  /\ returned' = [returned EXCEPT ![o] = {}]
  /\ effectRuns' = [effectRuns EXCEPT ![o] = "never"]
  /\ cycles' = IF counting THEN Min(cycles + 1, MaxCycles) ELSE cycles
  /\ peak' = [peak EXCEPT ![o] = 0]
  /\ events' = [events EXCEPT ![o] = << >>]
  /\ writes' = [writes EXCEPT ![o] = << >>]
  /\ sameSide' = [sameSide EXCEPT ![o] = FALSE]
  /\ UNCHANGED <<hasWindow, strict, width, matches, effectPending,
                 sinceChange, crossed, counting, recording>>

\* the viewport is resized
WidthChange(w) ==
  /\ w # width
  /\ width' = w
  /\ sinceChange' = [o \in Observers |-> 0]
  /\ crossed' = [o \in Observers |->
                   \E r \in BagToSet(listeners) : r.obs = o /\ Evaluate(r.q, w) # r.m]
  /\ sameSide' = IF recording
                   THEN [o \in Observers |->
                           \E r \in BagToSet(listeners) :
                              r.obs = o /\ Evaluate(r.q, w) = Evaluate(r.q, width)]
                   ELSE sameSide
  /\ UNCHANGED <<hasWindow, strict, listeners, phase, hook, query, matches,
                 returned, effectPending, cleanup, effectRuns, cycles, peak,
                 counting, recording, events, writes>>

\* setMatches(v) called by the handler of observer o
setMatches(o, v) ==
  /\ matches' = [matches EXCEPT ![o] = v]
  /\ writes' = IF recording THEN [writes EXCEPT ![o] = Append(@, v)] ELSE writes

\* a handler that publishes the negated payload
handleChange_Negated(o, e) ==
  /\ setMatches(o, ~e)
  /\ sinceChange' = [sinceChange EXCEPT ![o] = @ + 1]

\* a handler that drops every second event of a burst
handleChange_Debounced(o, e) ==
  /\ IF Len(events[o]) % 2 = 0 THEN setMatches(o, e) ELSE UNCHANGED <<matches, writes>>
  /\ sinceChange' = [sinceChange EXCEPT ![o] = @ + 1]

\* const handleChange = (e) => { setMatches(e.matches); }
handleChange(o, e) ==
  /\ setMatches(o, e)
  /\ sinceChange' = [sinceChange EXCEPT ![o] = @ + 1]

\* the platform reports a changed media query list to one of its listeners
Deliver(r) ==
  /\ r \in BagToSet(listeners)
  /\ Due(r)
  /\ sinceChange[r.obs] < MaxUpdates
  /\ recording => Len(events[r.obs]) < MaxLog
  /\ listeners' = (listeners (-) SetToBag({r})) (+) SetToBag({[r EXCEPT !.m = ~r.m]})
  /\ events' = IF recording THEN [events EXCEPT ![r.obs] = Append(@, ~r.m)] ELSE events
  /\ handleChange(r.obs, ~r.m)
  /\ UNCHANGED <<hasWindow, strict, width, phase, hook, query, returned,
                 effectPending, cleanup, crossed, effectRuns, cycles, peak,
                 counting, recording, sameSide>>

Next ==
  \/ \E o \in Observers, h \in Hooks, q \in Queries \cup {NoQuery} : Mount(o, h, q)
  \/ \E o \in Observers : RunEffect(o)
  \/ \E o \in Observers : Rerender(o)
  \/ \E o \in Observers, q \in Queries : SetQuery(o, q)
  \/ \E o \in Observers : Unmount(o)
  \/ \E w \in Widths : WidthChange(w)
  \/ \E r \in BagToSet(listeners) : Deliver(r)

Spec == Init /\ [][Next]_vars

SpecPair == InitPair /\ [][Next]_vars

SpecRecorded == InitRecorded /\ [][Next]_vars

SpecCounted == InitCounted /\ [][Next]_vars

\* ---- derived state ----

\* number of 'change' listeners registered on behalf of observer o
ListenerCount(o) ==
  LET mine == {r \in BagToSet(listeners) : r.obs = o} IN
    BagCardinality([r \in mine |-> CopiesIn(r, listeners)])

\* a change event is pending delivery to observer o
Pending(o) == \E r \in BagToSet(listeners) : r.obs = o /\ Due(r)

Live(o) == phase[o] = "mounted"

\* nothing is outstanding for o: its effect has run for the current query, no
\* change event is pending and the render has caught up with the state
Settled(o) ==
  /\ Live(o)
  /\ hasWindow
  /\ ~effectPending[o]
  /\ ~Pending(o)
  /\ returned[o] = {matches[o]}

TypeOK ==
  /\ hasWindow \in BOOLEAN
  /\ strict \in BOOLEAN
  /\ width \in Widths
  /\ IsABag(listeners)
  /\ \A r \in BagToSet(listeners) :
       r.obs \in Observers /\ r.q \in Queries /\ r.m \in BOOLEAN
  /\ \A o \in Observers :
       /\ phase[o] \in {"unmounted", "mounted", "renderError", "effectError"}
       /\ hook[o] \in Hooks \cup {NoHook}
       /\ query[o] \in Queries \cup {NoQuery}
       /\ matches[o] \in BOOLEAN
       /\ returned[o] \in SUBSET BOOLEAN
       /\ effectPending[o] \in BOOLEAN
       /\ cleanup[o] \in Queries \cup {NoQuery}
       /\ sinceChange[o] \in 0..MaxUpdates
       /\ crossed[o] \in BOOLEAN
       /\ effectRuns[o] \in {"never", "once", "again"}
       /\ peak[o] \in 0..1
       /\ events[o] \in Seq(BOOLEAN) /\ Len(events[o]) <= MaxLog
       /\ writes[o] \in Seq(BOOLEAN) /\ Len(writes[o]) <= MaxLog
       /\ sameSide[o] \in BOOLEAN
       /\ ~recording => (events[o] = << >> /\ writes[o] = << >> /\ ~sameSide[o])
  /\ cycles \in 0..MaxCycles
  /\ recording \in BOOLEAN
  /\ counting \in BOOLEAN
  /\ ~counting => cycles = 0

\* ---- claims ----

\* C1: once the cleanup of useMediaQuery has run (the observer is disposed),
\* no step changes the observer's match state or invokes its handler: not a
\* later viewport change, and not a change that was due before the disposal.
C1_NoUpdateAfterDisposal ==
  [][\A o \in Observers :
       (phase[o] = "unmounted" /\ phase'[o] = "unmounted") =>
          /\ matches'[o] = matches[o]
          /\ sinceChange'[o] <= sinceChange[o]
          /\ ListenerCount(o)' = 0]_vars

\* a disposed observer whose subscribed list had a change due that was never
\* delivered to it
C1_Witness ==
  \E o \in Observers :
    /\ phase[o] = "unmounted"
    /\ hasWindow
    /\ crossed[o]
    /\ sinceChange[o] = 0
    /\ ListenerCount(o) = 0

\* C2 (as stated): every live observer has exactly one registered listener,
\* from its creation until its disposal.
C2_ExactlyOneWhileLive ==
  \A o \in Observers : Live(o) => ListenerCount(o) = 1

\* C2 (amended): an observer never has more than one registered listener; it
\* has exactly one whenever it is live with a viewport context and no effect
\* is pending, and also while the effect of a changed query is pending; it
\* has none before its first effect has run, without a viewport context, and
\* when it is not live.
C2_AtMostOneListener ==
  \A o \in Observers :
    /\ ListenerCount(o) <= 1
    /\ (Live(o) /\ hasWindow /\ (~effectPending[o] \/ effectRuns[o] # "never"))
          => ListenerCount(o) = 1
    /\ (~Live(o) \/ ~hasWindow \/ effectRuns[o] = "never") => ListenerCount(o) = 0

\* a live observer that has re-subscribed after a change of its query
C2_Witness ==
  \E o \in Observers :
    /\ Live(o)
    /\ hasWindow
    /\ ~effectPending[o]
    /\ effectRuns[o] = "again"
    /\ ListenerCount(o) = 1

\* C3 (as stated): whenever no change event is pending delivery to a live
\* observer, the value its latest render returned is the viewport's current
\* match for its query.
C3_FreshWheneverNoEventPending ==
  \A o \in Observers :
    (Live(o) /\ hasWindow /\ ~Pending(o)) =>
       returned[o] = {Evaluate(query[o], width)}

\* C3 (amended): whenever a live observer is settled (its effect has run for
\* the current query, no change event is pending delivery and no re-render
\* scheduled by setMatches is outstanding) the value returned is the
\* viewport's current match for its query.
C3_FreshWhenSettled ==
  \A o \in Observers :
    Settled(o) => returned[o] = {Evaluate(query[o], width)}

\* a settled observer that has processed a change event
C3_Witness ==
  \E o \in Observers :
    /\ Settled(o)
    /\ crossed[o]
    /\ sinceChange[o] = 1
    /\ returned[o] = {Evaluate(query[o], width)}

\* C4: the number of listeners registered on the viewport context never
\* exceeds the number of mounted observers; after any number of complete
\* mount-then-dispose cycles, with nothing mounted, it is 0.
C4_NoResidualListeners ==
  BagCardinality(listeners) <= Cardinality({o \in Observers : Live(o)})

\* several complete cycles with a viewport context, so that each of them had
\* subscribed, and nothing mounted
C4_Witness ==
  /\ counting
  /\ cycles = MaxCycles
  /\ hasWindow
  /\ \A o \in Observers : phase[o] = "unmounted"
  /\ BagCardinality(listeners) = 0

\* C5: with a viewport context, the value returned by the first render equals
\* the platform's match result for the query at the time of the call.
C5_InitialValueIsCurrentMatch ==
  [][\A o \in Observers :
       (~Live(o) /\ Live(o)' /\ hasWindow) =>
          returned'[o] = {Evaluate(query'[o], width)}]_vars

\* a first render that returned true, its effect not yet run
C5_Witness ==
  \E o \in Observers :
    /\ Live(o)
    /\ hasWindow
    /\ effectRuns[o] = "never"
    /\ returned[o] = {TRUE}
    /\ Evaluate(query[o], width)

\* C6: without a viewport context every observer yields false and never
\* changes: no render returns anything but false, the state stays false, no
\* listener is registered and no query raises.
C6_NoViewportConstantFalse ==
  ~hasWindow =>
    /\ listeners = EmptyBag
    /\ \A o \in Observers :
         /\ matches[o] = FALSE
         /\ returned[o] \subseteq {FALSE}
         /\ sinceChange[o] = 0
         /\ phase[o] \in {"unmounted", "mounted"}

\* no viewport context, the effect has run, and the query would match the
\* simulated width
C6_Witness ==
  /\ ~hasWindow
  /\ \E o \in Observers :
       /\ Live(o)
       /\ effectRuns[o] # "never"
       /\ Evaluate(query[o], width)
       /\ returned[o] = {FALSE}

\* C7: after a viewport change that flipped the match of a live observer's
\* subscribed list, the handler runs at most once; until it has run the
\* event is still due, and once it has run the state equals the
\* post-transition match and no further event is due.
C7_OneUpdatePerTransition ==
  \A o \in Observers :
    (Live(o) /\ crossed[o]) =>
       /\ sinceChange[o] <= 1
       /\ sinceChange[o] = 0 => Pending(o)
       /\ sinceChange[o] = 1 =>
            (matches[o] = Evaluate(cleanup[o], width) /\ ~Pending(o))

\* one transition, delivered and rendered
C7_Witness ==
  \E o \in Observers :
    /\ Live(o)
    /\ crossed[o]
    /\ sinceChange[o] = 1
    /\ ~effectPending[o]
    /\ returned[o] = {matches[o]}
    /\ matches[o] = Evaluate(query[o], width)

\* expected settled values over the simulated widths
ExpectedMobile ==
  (320 :> TRUE) @@ (375 :> TRUE) @@ (428 :> TRUE) @@ (768 :> TRUE) @@
  (769 :> FALSE) @@ (1024 :> FALSE) @@ (1200 :> FALSE)

ExpectedTablet ==
  (320 :> TRUE) @@ (375 :> TRUE) @@ (428 :> TRUE) @@ (768 :> TRUE) @@
  (769 :> TRUE) @@ (1024 :> TRUE) @@ (1200 :> FALSE)

\* C8: at every simulated width the settled value of useIsMobile is the
\* expected one (true up to 768, false above) and equals the settled value of
\* an independent useMediaQuery observer of the 768px descriptor.
C8_IsMobileMatchesObserve768 ==
  \A o \in Observers :
    (hook[o] = "useIsMobile" /\ Settled(o)) =>
       /\ returned[o] = {ExpectedMobile[width]}
       /\ \A p \in Observers :
            (hook[p] = "useMediaQuery" /\ query[p] = MobileQuery /\ Settled(p))
              => returned[p] = returned[o]

\* both observers settled at 769 after a change that crossed 768
C8_Witness ==
  \E o, p \in Observers :
    /\ hook[o] = "useIsMobile" /\ Settled(o)
    /\ hook[p] = "useMediaQuery" /\ query[p] = MobileQuery /\ Settled(p)
    /\ width = 769
    /\ crossed[o] /\ crossed[p]
    /\ returned[o] = {FALSE} /\ returned[p] = {FALSE}

\* C9: at every simulated width the settled value of useIsTablet is the
\* expected one (true up to 1024, false above).
C9_IsTabletSequence ==
  \A o \in Observers :
    (hook[o] = "useIsTablet" /\ Settled(o)) =>
       returned[o] = {ExpectedTablet[width]}

\* useIsTablet settled at 1200 after a change that crossed 1024
C9_Witness ==
  \E o \in Observers :
    /\ hook[o] = "useIsTablet" /\ Settled(o)
    /\ width = 1200
    /\ crossed[o]
    /\ returned[o] = {FALSE}

\* C10 (as stated): an observer whose query the platform raises on has ended
\* in that error, has published no match value and has no listener.
C10_RaisePublishesNothing ==
  \A o \in Observers :
    (hasWindow /\ strict /\ query[o] = MalformedQuery /\ ~effectPending[o]) =>
       /\ phase[o] \in {"renderError", "effectError"}
       /\ returned[o] = {}
       /\ ListenerCount(o) = 0

\* C10 (amended): when the platform raises on the query of an observer's
\* first call, the render ends in the error, no match value is published and
\* no listener is registered; when it raises on a query the observer was
\* changed to, that render has returned the previous state, the effect ends
\* in the error and no listener is left registered. The observer is never
\* live and subscribed with such a query.
C10_RaisePropagates ==
  \A o \in Observers :
    (hasWindow /\ strict /\ query[o] = MalformedQuery) =>
       /\ phase[o] \in {"renderError", "effectError"} \/ (Live(o) /\ effectPending[o])
       /\ phase[o] = "renderError" =>
            (returned[o] = {} /\ effectRuns[o] = "never" /\ ListenerCount(o) = 0)
       /\ phase[o] = "effectError" =>
            (returned[o] # {} /\ effectRuns[o] = "again" /\ ListenerCount(o) = 0)
       /\ Live(o) =>
            (returned[o] # {} /\ effectRuns[o] # "never")

\* the first render of an observer ended in the platform's error
C10_Witness ==
  \E o \in Observers :
    /\ hasWindow /\ strict
    /\ phase[o] = "renderError"
    /\ query[o] = MalformedQuery
    /\ returned[o] = {}
    /\ ListenerCount(o) = 0
\* C11 (as stated): for the change events delivered to a live observer, the
\* values its handler wrote to the match state are the events' payloads, in
\* order and one per event, and the match state equals the payload of the
\* last delivered event.
C11_WritesAndStateFollowEvents ==
  \A o \in Observers :
    (recording /\ Live(o)) =>
       /\ writes[o] = events[o]
       /\ events[o] # << >> => matches[o] = events[o][Len(events[o])]

\* C11 (amended): the values the handler wrote are the events' payloads, in
\* order and one per event; the match state equals the payload of the last
\* delivered event as long as the observer's query has not changed since its
\* mount (a re-subscription overwrites the state with the match it reads).
C11_WritesFollowEvents ==
  \A o \in Observers :
    (recording /\ Live(o)) =>
       /\ writes[o] = events[o]
       /\ (events[o] # << >> /\ effectRuns[o] = "once" /\ ~effectPending[o])
            => matches[o] = events[o][Len(events[o])]

\* a live observer that has received as many events as the test double records
C11_Witness ==
  \E o \in Observers :
    /\ recording
    /\ Live(o)
    /\ effectRuns[o] = "once"
    /\ Len(events[o]) = MaxLog
    /\ writes[o] = events[o]
    /\ matches[o] = events[o][Len(events[o])]

\* what observer o owns: its life cycle, its query, its match state, the value
\* it returned, its cleanup and its listener registrations
Registrations(o) ==
  {<<r, listeners[r]>> : r \in {x \in DOMAIN listeners : x.obs = o}}

ObserverState(o) ==
  <<phase[o], query[o], matches[o], returned[o], effectPending[o], cleanup[o],
    Registrations(o)>>

\* C12: with two observers live at once, a step that changes what one
\* observer owns (mount, event delivery, re-subscription, disposal) leaves the
\* match state and the listener registrations of the other unchanged.
C12_ObserversIndependent ==
  [][\A o \in Observers :
       ObserverState(o)' # ObserverState(o) =>
          \A p \in Observers \ {o} : ObserverState(p)' = ObserverState(p)]_vars

\* two live observers subscribed to the same query: the event has been
\* delivered to one of them and is still pending for the other
C12_Witness ==
  \E o, p \in Observers :
    /\ o # p
    /\ Live(o) /\ Live(p)
    /\ cleanup[o] # NoQuery /\ cleanup[o] = cleanup[p]
    /\ sinceChange[o] = 1 /\ ~Pending(o)
    /\ sinceChange[p] = 0 /\ Pending(p)
    /\ matches[o] # matches[p]

\* C13: the handler runs only for a viewport change that flipped the match of
\* the observer's subscribed list; after a change that left that match as it
\* was (and with no earlier flip outstanding) the handler has not run, nothing
\* was written and no event is due.
C13_OnlyBreakpointChangesUpdate ==
  \A o \in Observers :
    /\ sinceChange[o] >= 1 => crossed[o]
    /\ (Live(o) /\ ~crossed[o]) => ~Pending(o)
    /\ (recording /\ sameSide[o] /\ ~crossed[o]) =>
         (sinceChange[o] = 0 /\ Len(writes[o]) = Len(events[o]))

\* a subscribed observer that has received events before, after a viewport
\* change that stayed on the same side of its threshold
C13_Witness ==
  \E o \in Observers :
    /\ recording
    /\ Settled(o)
    /\ sameSide[o]
    /\ ~crossed[o]
    /\ sinceChange[o] = 0
    /\ Len(events[o]) >= 1
    /\ Len(writes[o]) = Len(events[o])

\* C14: when the effect of a changed query Q2 completes on a live observer,
\* the listener of Q1 was removed before the one of Q2 was added (the
\* observer never had two), the match state is the viewport's current match
\* for Q2 and the observer's only listener is on a list of Q2 that is up to
\* date; an observer whose effect has run has no listener on any other query,
\* so later changes of Q1 do not reach it.
C14_Resubscription ==
  [][\A o \in Observers :
       /\ (Live(o) /\ hasWindow /\ effectPending[o] /\ effectRuns[o] # "never"
             /\ Live(o)' /\ ~effectPending'[o]) =>
            /\ peak'[o] = 1
            /\ matches'[o] = Evaluate(query[o], width)
            /\ Registrations(o)' =
                 {<<[obs |-> o, q |-> query[o], m |-> Evaluate(query[o], width)], 1>>}
       /\ (Live(o)' /\ ~effectPending'[o]) =>
            \A x \in Registrations(o)' : x[1].q = query'[o]]_vars

\* a re-subscribed observer of the 1024px query at a width where the 768px
\* query, were it still listened to, would report no match
C14_Witness ==
  \E o \in Observers :
    /\ Live(o)
    /\ hasWindow
    /\ ~effectPending[o]
    /\ effectRuns[o] = "again"
    /\ peak[o] = 1
    /\ query[o] = TabletQuery
    /\ matches[o]
    /\ ~Evaluate(MobileQuery, width)
    /\ Registrations(o) = {<<[obs |-> o, q |-> TabletQuery, m |-> TRUE], 1>>}

\* C15: when the first effect of an observer completes, its match state is
\* the viewport's current match for the query and no change event is due to
\* it, whatever the viewport did since the first render and although no
\* event was delivered to the observer.
C15_ChangeBeforeEffectNotLost ==
  [][\A o \in Observers :
       (Live(o) /\ hasWindow /\ effectPending[o] /\ effectRuns[o] = "never"
          /\ Live(o)' /\ ~effectPending'[o]) =>
            /\ matches'[o] = Evaluate(query[o], width)
            /\ ~Pending(o)'
            /\ events'[o] = << >>]_vars

\* the first render returned a value that the viewport has left behind; the
\* effect has corrected the state without any event delivered
C15_Witness ==
  \E o \in Observers :
    /\ recording
    /\ Live(o)
    /\ hasWindow
    /\ effectRuns[o] = "once"
    /\ events[o] = << >>
    /\ ~Pending(o)
    /\ returned[o] = {~matches[o]}
    /\ matches[o] = Evaluate(query[o], width)

====
